---- MODULE Spec2Model ----
(***************************************************************************)
(* Verification model of aPyddit: the request pipeline of HTTPClient       *)
(* (token cache, rate-limit gate, retry loop), the RateLimitLock on its    *)
(* own, the BaseListing/Listing cursor pagination engine, and the          *)
(* CommentTree with its depth-first and breadth-first iterators.           *)
(*                                                                         *)
(* Five specifications share the module:                                   *)
(*   Spec        - concurrent HTTPClient.request() flows on one client     *)
(*   GateSpec    - direct calls on one RateLimitLock (FairGateSpec adds    *)
(*                 the fairness of the event loop's clock and timers)      *)
(*   ListingSpec - one Listing driven by await / next() / prev() and       *)
(*                 `async for`                                             *)
(*   TreeSpec    - one CommentTree: awaits of the tree and walks over it   *)
(*   ExpandSpec  - `await stub` on the More objects of one tree            *)
(***************************************************************************)
EXTENDS Integers, Sequences, FiniteSets, Bags, TLC

\* ------------------------------------------------------------------ bounds
Flows == {1, 2}
MaxTime == 2
MaxAttempts == 2
MaxGateCalls == 3
LimitBound == 2
MaxPage == 2
MaxOps == 3
MaxNodes == 4
MaxAwaits == 2
MaxWalks == 1
\* `async for` loops over one tree.
MaxRewalks == 2
MaxDepth == 1
MaxExpands == 2

\* ------------------------------------------------------- python values
\* A Python value of one of the types the modelled code compares:
\* None, a str (as its sequence of characters) or an int.
PyNone == [type |-> "none", chars |-> <<>>, num |-> 0]
PyStr(cs) == [type |-> "str", chars |-> cs, num |-> 0]
PyInt(n) == [type |-> "int", chars |-> <<>>, num |-> n]

\* Python's == between two such values: values of different types are unequal.
PyEq(a, b) == a.type = b.type /\ a.chars = b.chars /\ a.num = b.num

\* Python truthiness of `not v` for None and int.
Falsy(v) == v.type = "none" \/ (v.type = "int" /\ v.num = 0) \/ (v.type = "str" /\ v.chars = <<>>)

Digits == <<"0", "1", "2", "3", "4", "5", "6", "7", "8", "9">>

IsDigit(c) == \E i \in 1..10 : Digits[i] = c

DigitVal(c) == (CHOOSE i \in 1..10 : Digits[i] = c) - 1

\* str.isdecimal(): non-empty and every character is a decimal digit.
IsDecimal(cs) == Len(cs) > 0 /\ \A i \in 1..Len(cs) : IsDigit(cs[i])

\* int(s) for a decimal string.
RECURSIVE ParseInt(_)
ParseInt(cs) == IF cs = <<>> THEN 0 ELSE 10 * ParseInt(SubSeq(cs, 1, Len(cs) - 1)) + DigitVal(cs[Len(cs)])

\* str.lower() on the characters that occur in token types.
LowerChar(c) == CASE c = "B" -> "b" [] c = "M" -> "m" [] c = "A" -> "a" [] c = "C" -> "c" [] OTHER -> c

Lower(cs) == [i \in 1..Len(cs) |-> LowerChar(cs[i])]

\* ------------------------------------------------------------ environment
\* Values the API server may put in x-ratelimit-remaining / x-ratelimit-reset
\* (aiohttp delivers header values as str, or None when the header is absent).
RemainingVals == {PyNone, PyStr(<<"0">>)}
ResetVals == {PyNone, PyStr(<<"0">>), PyStr(<<"1">>), PyStr(<<"2">>), PyStr(<<"-", "1">>)}
Statuses == {200, 429, 404}

\* Token endpoint replies.
TokenTypes == {<<"b", "e", "a", "r", "e", "r">>, <<"B", "e", "a", "r", "e", "r">>, <<"m", "a", "c">>}
Lifetimes == {1, 2}
Bearer == <<"b", "e", "a", "r", "e", "r">>

\* Direct arguments of RateLimitLock.unlock_after in GateSpec.
TimeoutVals == {PyNone, PyInt(-1), PyInt(0), PyInt(1), PyInt(2)}

NoToken == 0
NoResp == [status |-> 0, remaining |-> PyNone, reset |-> PyNone, body |-> <<0, 0>>]
NoData == [status |-> 0, error |-> FALSE, token_type |-> <<>>, expires_in |-> 0, access_token |-> 0]
FailedData(st, e) == [status |-> st, error |-> e, token_type |-> <<>>, expires_in |-> 0, access_token |-> 0]
NoBody == <<0, 0>>

VARIABLES
    now,            \* the clock (datetime.utcnow() / loop.time()), in whole units
    locked,         \* RateLimitLock.is_locked()
    timers,         \* the pending unlocker tasks: a bag of the times their sleeps end
    token,          \* HTTPClient._token (NoToken for None)
    tokenExpires,   \* HTTPClient._token_expires
    nExch,          \* number of credential exchanges started
    flows,          \* the request() coroutines
    caller,         \* GateSpec: the code calling the RateLimitLock directly
    lst,            \* ListingSpec: the listing object and its caller
    ct              \* TreeSpec: the comment tree, its awaits and the walk over it

vars == <<now, locked, timers, token, tokenExpires, nExch, flows, caller, lst, ct>>


\* ---------------------------------------------------------- RateLimitLock
\* Variant: the guard is missing and every timeout is accepted.
UnlockAfterNeverRaises(timeout) == FALSE

\* `if not timeout: raise RuntimeError`
UnlockAfterRaises(timeout) == Falsy(timeout)

\* asyncio.create_task(unlocker()): the task sleeps `timeout`, until `due`.
NewTimer(timeout) == now + timeout.num

\* The pending tasks after unlock_after(timeout): none is created when it raises.
UnlockAfter(pending, timeout) == IF UnlockAfterRaises(timeout) THEN pending ELSE pending (+) SetToBag({NewTimer(timeout)})

\* Variant: the unlocker does not sleep.
TimerDueAtOnce(due) == TRUE

\* asyncio.sleep(timeout) has returned: the delay has elapsed.
TimerDue(due) == now >= due

\* Variant: set() resolves the future of one waiter only.
ReleaseOne(fl) ==
    [f \in Flows |-> IF fl[f].pc = "wait" /\ (\A g \in Flows : fl[g].pc = "wait" => f <= g)
                     THEN [fl[f] EXCEPT !.pc = "woken"] ELSE fl[f]]

\* asyncio.Event.set(): every waiter's future is resolved.
Release(fl) == [f \in Flows |-> IF fl[f].pc = "wait" THEN [fl[f] EXCEPT !.pc = "woken"] ELSE fl[f]]

\* unlocker(): after the sleep, self.unlock().
TimerFire(due) ==
    /\ BagIn(due, timers)
    /\ TimerDue(due)
    /\ timers' = timers (-) SetToBag({due})
    /\ locked' = FALSE
    /\ flows' = IF locked THEN Release(flows) ELSE flows
    /\ UNCHANGED <<now, token, tokenExpires, nExch, caller, lst, ct>>

Tick ==
    /\ now < MaxTime
    /\ now' = now + 1
    /\ UNCHANGED <<locked, timers, token, tokenExpires, nExch, flows, caller, lst, ct>>

\* ------------------------------------------------------------ HTTPClient
\* One request() coroutine.  pc: idle (not called), wait (suspended in
\* Event.wait), woken (its future resolved, not yet run), exch (token POST in
\* flight), exchGot (token reply arrived), inflight (API request in flight),
\* got (API response arrived), done (returned), error (raised).
NewFlow == [pc |-> "idle", tnow |-> 0, xid |-> 0, tok |-> NoToken, attempts |-> 0,
            resp |-> NoResp, data |-> NoData, result |-> NoBody,
            err |-> "none", errStatus |-> 0, errData |-> NoBody]

\* Variant: the token is still used at the instant it expires.
NeedsRefreshLate(tk, expires, t, force_refresh) == tk = NoToken \/ (t > expires \/ force_refresh)

\* `self._token is None or (now >= self._token_expires or force_refresh)`
NeedsRefresh(tk, expires, t, force_refresh) == tk = NoToken \/ (t >= expires \/ force_refresh)

\* Variant: the token type is not validated.
TokenTypeAny(tt) == TRUE

\* `data["token_type"].lower() != "bearer"` is false
TokenTypeOK(tt) == Lower(tt) = Bearer

\* session.request(...): the API request leaves with the resolved token.
SendRequest(r, tk) == [r EXCEPT !.pc = "inflight", !.tok = tk, !.attempts = @ + 1, !.tnow = 0, !.xid = 0, !.data = NoData]

\* Variant: a caller that finds an exchange in flight does not start its own
\* and looks at the cache again later.
GetTokenSingleFlight(r) ==
    IF NeedsRefresh(token, tokenExpires, now, FALSE)
    THEN IF \E g \in Flows : flows[g].pc \in {"exch", "exchGot"}
         THEN [r EXCEPT !.pc = "woken"]
         ELSE [r EXCEPT !.pc = "exch", !.tnow = now, !.xid = nExch + 1]
    ELSE SendRequest(r, token)

\* _get_token(): take `now`, then either start the exchange or use the cache.
GetToken(r) ==
    IF NeedsRefresh(token, tokenExpires, now, FALSE)
    THEN [r EXCEPT !.pc = "exch", !.tnow = now, !.xid = nExch + 1]
    ELSE SendRequest(r, token)

\* Variant: the loop does not wait for the gate.
LoopTopNoWait(r, isLocked) == GetToken(r)

\* Top of the `while True` loop: Event.wait() returns at once when the event
\* is set and suspends on a future otherwise.
LoopTop(r, isLocked) == IF isLocked THEN [r EXCEPT !.pc = "wait"] ELSE GetToken(r)

ExchStarted(r) == IF r.pc = "exch" THEN nExch + 1 ELSE nExch

\* Variant: a new call does not look at the gate.
CallIgnoringGate(f) ==
    /\ flows[f].pc = "idle"
    /\ flows' = [flows EXCEPT ![f] = LoopTop(flows[f], FALSE)]
    /\ nExch' = ExchStarted(flows'[f])
    /\ UNCHANGED <<now, locked, timers, token, tokenExpires, caller, lst, ct>>

\* A caller starts request().
Call(f) ==
    /\ flows[f].pc = "idle"
    /\ flows' = [flows EXCEPT ![f] = LoopTop(flows[f], locked)]
    /\ nExch' = ExchStarted(flows'[f])
    /\ UNCHANGED <<now, locked, timers, token, tokenExpires, caller, lst, ct>>

\* A waiter whose future was resolved by set() runs again: wait() returns
\* True without looking at the event a second time.
Resume(f) ==
    /\ flows[f].pc = "woken"
    /\ flows' = [flows EXCEPT ![f] = GetToken(flows[f])]
    /\ nExch' = ExchStarted(flows'[f])
    /\ UNCHANGED <<now, locked, timers, token, tokenExpires, caller, lst, ct>>

\* What the credential endpoint may answer to the exchange of flow f.
TokenReplies(f) ==
    {FailedData(401, FALSE), FailedData(200, TRUE)} \cup
    {[status |-> 200, error |-> FALSE, token_type |-> tt, expires_in |-> l, access_token |-> flows[f].xid] :
        tt \in TokenTypes, l \in Lifetimes}

\* The credential endpoint's reply arrives (`await response.json()` completes).
ExchangeReply(f, data) ==
    /\ flows[f].pc = "exch"
    /\ data \in TokenReplies(f)
    /\ flows' = [flows EXCEPT ![f] = [@ EXCEPT !.pc = "exchGot", !.data = data]]
    /\ UNCHANGED <<now, locked, timers, token, tokenExpires, nExch, caller, lst, ct>>

\* The rest of _get_token() and, when it returns, the sending of the request.
HandleExchange(f) ==
    /\ flows[f].pc = "exchGot"
    /\ LET r == flows[f]
           data == r.data
       IN IF data.status # 200 \/ data.error
          THEN /\ flows' = [flows EXCEPT ![f] = [r EXCEPT !.pc = "error", !.err = "HTTPException",
                                                     !.errStatus = data.status, !.errData = <<f, 0>>,
                                                     !.tnow = 0, !.xid = 0]]
               /\ UNCHANGED <<token, tokenExpires>>
          ELSE IF ~TokenTypeOK(data.token_type)
          THEN /\ flows' = [flows EXCEPT ![f] = [r EXCEPT !.pc = "error", !.err = "UnsupportedTokenType",
                                                     !.tnow = 0, !.xid = 0]]
               /\ UNCHANGED <<token, tokenExpires>>
          ELSE /\ token' = data.access_token
               /\ tokenExpires' = r.tnow + data.expires_in
               /\ flows' = [flows EXCEPT ![f] = SendRequest(r, data.access_token)]
    /\ UNCHANGED <<now, locked, timers, nExch, caller, lst, ct>>

\* What the API may answer to the request of flow f.
Responses(f) ==
    {[status |-> 429, remaining |-> rem, reset |-> rst, body |-> <<f, flows[f].attempts>>] :
        rem \in RemainingVals, rst \in ResetVals} \cup
    {[status |-> st, remaining |-> rem, reset |-> rst, body |-> <<f, flows[f].attempts>>] :
        st \in Statuses, rem \in RemainingVals, rst \in {PyNone, PyStr(<<"1">>)}}

\* `reset_after is not None and reset_after.isdecimal()`
ResetUsable(reset_after) == ~PyEq(reset_after, PyNone) /\ IsDecimal(reset_after.chars)

\* `remaining == 0`
QuotaExhausted(remaining) == PyEq(remaining, PyInt(0))

\* The response takes one of the two rate-limit branches.
TakesRateLimitBranch(resp) == QuotaExhausted(resp.remaining) \/ resp.status = 429

\* The API's response arrives (`async with session.request(...)` is entered).
Response(f, resp) ==
    /\ flows[f].pc = "inflight"
    /\ resp \in Responses(f)
    /\ TakesRateLimitBranch(resp) => flows[f].attempts < MaxAttempts
    /\ flows' = [flows EXCEPT ![f] = [@ EXCEPT !.pc = "got", !.resp = resp, !.tok = NoToken]]
    /\ UNCHANGED <<now, locked, timers, token, tokenExpires, nExch, caller, lst, ct>>

\* Body of both rate-limit branches: lock(), read the reset header,
\* unlock_after(int(reset_after)) when usable, then `continue`.
RateLimited(f, r) ==
    LET reset_after == r.resp.reset
        usable == ResetUsable(reset_after)
        timeout == PyInt(ParseInt(reset_after.chars))
        r2 == [r EXCEPT !.resp = NoResp]
    IN /\ locked' = TRUE
       /\ IF usable /\ UnlockAfterRaises(timeout)
          THEN /\ flows' = [flows EXCEPT ![f] = [r2 EXCEPT !.pc = "error", !.err = "RuntimeError"]]
               /\ timers' = timers
          ELSE /\ timers' = IF usable THEN UnlockAfter(timers, timeout) ELSE timers
               /\ flows' = [flows EXCEPT ![f] = LoopTop(r2, TRUE)]

\* The body of the `async with` block of request().
HandleResponse(f) ==
    /\ flows[f].pc = "got"
    /\ LET r == flows[f]
           resp == r.resp
           r2 == [r EXCEPT !.resp = NoResp]
       IN IF QuotaExhausted(resp.remaining)
          THEN RateLimited(f, r)
          ELSE IF resp.status = 429
          THEN RateLimited(f, r)
          ELSE IF resp.status # 200
          THEN /\ flows' = [flows EXCEPT ![f] = [r2 EXCEPT !.pc = "error", !.err = "HTTPException",
                                                      !.errStatus = resp.status, !.errData = NoBody]]
               /\ UNCHANGED <<locked, timers>>
          ELSE /\ flows' = [flows EXCEPT ![f] = [r2 EXCEPT !.pc = "done", !.result = resp.body]]
               /\ UNCHANGED <<locked, timers>>
    /\ UNCHANGED <<now, token, tokenExpires, nExch, caller, lst, ct>>

\* ------------------------------------------------- BaseListing / Listing
\* `_max_limit = 100`
max_limit == 100

\* Cursor values (fullnames); NoneCursor stands for None.
NoneCursor == "None"
Cursors == {"c1", "c2"}
\* Fullnames of the things the endpoint serves.
Items == <<"t3_a", "t3_b", "t3_c", "t3_d">>
NoParams == [limit |-> 0, before |-> NoneCursor, after |-> NoneCursor, count |-> 0]

Min(a, b) == IF a < b THEN a ELSE b

\* Variant: the children are taken in the order of the response.
ReversedNot(seq) == seq

\* `reversed(data["children"])`
Reversed(seq) == [i \in 1..Len(seq) |-> seq[Len(seq) + 1 - i]]

\* self._iter: None, a list iterator that raised StopIteration (and stays
\* exhausted), or otherwise the index of the item the iterator returns next.
NoIter == -1
ExhaustedIter == -2

\* The listing object (initialized, before, after, reverse, limit, count,
\* buf, iter), the call in progress (pc, dir, params), the last call (op,
\* ret, err, yielded) and bookkeeping: ops (calls made), nFetch (requests
\* issued), nInitFetch (_fetch(0) invocations), got (items yielded since the
\* buffer was last filled), manual (await/next()/prev() was called), page
\* (the cursors of the last response), count0 (the count set by __init__),
\* nYielded (items yielded by __anext__), sumReq (sum of the page sizes
\* requested), initFailed (the request of _fetch(0) raised).
\* BaseListing.__init__: `count` is the keyword argument when one is given
\* (hasCount) and is assumed otherwise.
NewListing(before, after, reverse, limit, hasCount, count) ==
    [initialized |-> FALSE,
     before |-> before, after |-> after, reverse |-> reverse, limit |-> limit,
     count |-> IF hasCount THEN count
               ELSE IF limit # PyNone /\ reverse THEN limit.num ELSE 0,
     buf |-> <<>>,
     iter |-> NoIter,
     pc |-> "idle", dir |-> 0, params |-> NoParams,
     op |-> "none", ret |-> "none", err |-> "none", ops |-> 0, nFetch |-> 0,
     yielded |-> "", got |-> <<>>, manual |-> FALSE, nInitFetch |-> 0,
     page |-> [before |-> NoneCursor, after |-> NoneCursor],
     count0 |-> IF hasCount THEN count
                ELSE IF limit # PyNone /\ reverse THEN limit.num ELSE 0,
     nYielded |-> 0, sumReq |-> 0, initFailed |-> FALSE]

\* `if self.count < 0: self.count = 0`
\* Variant: a negative count is used as it is.
ClampCountNever(c) == c

ClampCount(c) == IF c < 0 THEN 0 ELSE c

\* The page size _fetch computes; 0 stands for the early `return False`.
\* Variant: the page size is not capped by the endpoint's maximum.
PageLimitUncapped(l, direction) ==
    LET count == ClampCount(l.count)
    IN IF l.limit = PyNone
       THEN max_limit
       ELSE IF direction = -1 \/ (direction = 0 /\ l.reverse)
       THEN IF count <= 0 THEN 0 ELSE Min(count, l.limit.num)
       ELSE IF count >= l.limit.num THEN 0 ELSE l.limit.num - count

PageLimit(l, direction) ==
    LET count == ClampCount(l.count)
    IN IF l.limit = PyNone
       THEN max_limit
       ELSE IF direction = -1 \/ (direction = 0 /\ l.reverse)
       THEN IF count <= 0 THEN 0 ELSE Min(Min(count, l.limit.num), max_limit)
       ELSE IF count >= l.limit.num THEN 0 ELSE Min(l.limit.num - count, max_limit)

\* The `before` parameter of the request: [ok, value]; ok is FALSE for the
\* `return False` exits, value is NoneCursor when the parameter is left out.
BeforeParam(l, direction) ==
    IF direction = 1 THEN [ok |-> TRUE, value |-> NoneCursor]
    ELSE IF l.before # NoneCursor THEN [ok |-> TRUE, value |-> l.before]
    ELSE IF l.limit = PyNone /\ l.buf # <<>>
    THEN LET fullname == IF l.reverse THEN l.buf[Len(l.buf)] ELSE l.buf[1]
         IN IF fullname # "" THEN [ok |-> TRUE, value |-> fullname] ELSE [ok |-> FALSE, value |-> NoneCursor]
    ELSE IF direction # 0 THEN [ok |-> FALSE, value |-> NoneCursor]
    ELSE [ok |-> TRUE, value |-> NoneCursor]

\* The `after` parameter of the request, likewise.
AfterParam(l, direction) ==
    IF direction = -1 THEN [ok |-> TRUE, value |-> NoneCursor]
    ELSE IF l.after # NoneCursor THEN [ok |-> TRUE, value |-> l.after]
    ELSE IF l.limit = PyNone /\ l.buf # <<>>
    THEN LET fullname == IF l.reverse THEN l.buf[1] ELSE l.buf[Len(l.buf)]
         IN IF fullname # "" THEN [ok |-> TRUE, value |-> fullname] ELSE [ok |-> FALSE, value |-> NoneCursor]
    ELSE IF direction # 0 THEN [ok |-> FALSE, value |-> NoneCursor]
    ELSE [ok |-> TRUE, value |-> NoneCursor]

\* _fetch(direction) up to `await self._method(...)`: either it returns False
\* (pc stays idle) or the request leaves with the assembled parameters.
StartFetch(l, direction) ==
    LET l1 == [l EXCEPT !.count = ClampCount(l.count)]
        limit == PageLimit(l, direction)
        b == BeforeParam(l1, direction)
        a == AfterParam(l1, direction)
    IN IF limit <= 0 \/ ~b.ok \/ ~a.ok
       THEN [l1 EXCEPT !.ret = "false"]
       ELSE [l1 EXCEPT !.pc = "fetching", !.dir = direction, !.nFetch = @ + 1, !.ret = "none",
                       !.sumReq = @ + limit,
                       !.params = [limit |-> limit, before |-> b.value, after |-> a.value, count |-> l1.count]]

\* Listing._update_data(direction, data)
\* Variant: only the cursor of the direction moved in is stored.
UpdateDataOneCursor(l, direction, data) ==
    LET dist == data.dist
        count == IF direction = 1 THEN l.count + dist
                 ELSE IF direction = -1 THEN l.count - dist
                 ELSE IF l.reverse THEN l.count - dist ELSE l.count + dist
        l1 == [l EXCEPT !.count = count,
                        !.before = IF direction = 1 THEN @ ELSE data.before,
                        !.after = IF direction = -1 THEN @ ELSE data.after]
    IN IF data.children # <<>>
       THEN [l1 EXCEPT !.buf = IF l.reverse THEN Reversed(data.children) ELSE data.children, !.ret = "true"]
       ELSE [l1 EXCEPT !.ret = "false"]

UpdateData(l, direction, data) ==
    LET dist == data.dist
        count == IF direction = 1 THEN l.count + dist
                 ELSE IF direction = -1 THEN l.count - dist
                 ELSE IF l.reverse THEN l.count - dist ELSE l.count + dist
        l1 == [l EXCEPT !.count = count, !.before = data.before, !.after = data.after]
    IN IF data.children # <<>>
       THEN [l1 EXCEPT !.buf = IF l.reverse THEN Reversed(data.children) ELSE data.children, !.ret = "true"]
       ELSE [l1 EXCEPT !.ret = "false"]

\* Variant: the listing is never treated as uninitialized.
NeverUninitialized(l) == FALSE

\* `if not self._initialized: raise RedditException(...)`
Uninitialized(l) == ~l.initialized

Called(l, name) == [l EXCEPT !.ops = @ + 1, !.op = name, !.ret = "none", !.err = "none", !.yielded = "",
                            !.manual = @ \/ name # "anext"]

\* Variant: _initialize fetches on every call.
NeedsInitializeAlways(l) == TRUE

\* `if not self._initialized:` of _initialize
NeedsInitialize(l) == ~l.initialized

\* Variant: the flag is not set before the fetch.
InitializeUnflagged(l) ==
    IF NeedsInitialize(l)
    THEN StartFetch([l EXCEPT !.nInitFetch = @ + 1], 0)
    ELSE l

\* _initialize() up to the await inside _fetch(0).
Initialize(l) ==
    IF NeedsInitialize(l)
    THEN StartFetch([l EXCEPT !.initialized = TRUE, !.nInitFetch = @ + 1], 0)
    ELSE l

\* `await listing`: _initialize()
Await ==
    /\ lst.pc = "idle" /\ lst.ops < MaxOps
    /\ lst' = Initialize(Called(lst, "await"))
    /\ UNCHANGED <<now, locked, timers, token, tokenExpires, nExch, flows, caller, ct>>

\* listing.next(), awaited
ListingNext ==
    /\ lst.pc = "idle" /\ lst.ops < MaxOps
    /\ lst' = IF Uninitialized(lst)
              THEN [Called(lst, "next") EXCEPT !.err = "RedditException"]
              ELSE StartFetch(Called(lst, "next"), 1)
    /\ UNCHANGED <<now, locked, timers, token, tokenExpires, nExch, flows, caller, ct>>

\* listing.prev(), awaited
ListingPrev ==
    /\ lst.pc = "idle" /\ lst.ops < MaxOps
    /\ lst' = IF Uninitialized(lst)
              THEN [Called(lst, "prev") EXCEPT !.err = "RedditException"]
              ELSE StartFetch(Called(lst, "prev"), -1)
    /\ UNCHANGED <<now, locked, timers, token, tokenExpires, nExch, flows, caller, ct>>

\* The first n items of the endpoint, in the order the endpoint lists them.
PageOf(n) == SubSeq(Items, 1, n)

\* The pages the endpoint may return for the request in flight: at most the
\* requested number of children, `dist` their number, and any cursors.
Pages(l) ==
    {[dist |-> Len(ch), before |-> b, after |-> a, children |-> ch] :
        ch \in {PageOf(n) : n \in 0..Min(l.params.limit, Min(MaxPage, Len(Items)))},
        b \in Cursors \cup {NoneCursor}, a \in Cursors \cup {NoneCursor}}

\* Variant: continuous iteration always advances forward.
IterDirectionForward(l) == 1

\* `if self.reverse: _fetch(-1) else: _fetch(1)` of __anext__
IterDirection(l) == IF l.reverse THEN -1 ELSE 1

\* The `while True` loop of __anext__ up to its next await: return the next
\* buffered item, or on StopIteration fetch in the configured direction and
\* raise StopAsyncIteration when _fetch returns False at once.
AnextLoop(l) ==
    IF l.iter = NoIter
    THEN [l EXCEPT !.err = "TypeError"]
    ELSE IF l.iter # ExhaustedIter /\ l.iter < Len(l.buf)
    THEN [l EXCEPT !.iter = @ + 1, !.ret = "item", !.yielded = l.buf[l.iter + 1],
                   !.got = Append(@, l.buf[l.iter + 1]), !.nYielded = @ + 1]
    ELSE LET f == StartFetch([l EXCEPT !.iter = ExhaustedIter], IterDirection(l))
         IN IF f.pc = "fetching" THEN f ELSE [f EXCEPT !.ret = "stop"]

\* __anext__ after `await self._initialize()` has returned.
AnextAfterInitialize(l) == AnextLoop([l EXCEPT !.iter = 0])

\* Variant: the buffer is iterated again whatever _fetch returned.
AnextAfterFetchAlways(l) == AnextLoop([l EXCEPT !.iter = 0])

\* __anext__ after `await self._fetch(...)` of the loop has returned.
AnextAfterFetch(l) ==
    IF l.ret = "true" THEN AnextLoop([l EXCEPT !.iter = 0]) ELSE [l EXCEPT !.ret = "stop"]

\* `await listing.__anext__()` (one step of `async for`), up to its first await.
Anext ==
    /\ lst.pc = "idle" /\ lst.ops < MaxOps
    /\ lst' = LET l == Called(lst, "anext")
              IN IF ~l.initialized
                 THEN LET i == Initialize(l)
                      IN IF i.pc = "fetching" THEN i ELSE AnextAfterInitialize(i)
                 ELSE AnextLoop(l)
    /\ UNCHANGED <<now, locked, timers, token, tokenExpires, nExch, flows, caller, ct>>

\* The endpoint answers: the rest of _fetch runs (_update_data), and then
\* the rest of the call that awaited it.
FetchReply(data) ==
    /\ lst.pc = "fetching"
    /\ data \in Pages(lst)
    /\ lst' = LET u == [UpdateData(lst, lst.dir, data) EXCEPT !.pc = "idle", !.params = NoParams,
                                                               !.got = IF data.children # <<>> THEN <<>> ELSE @,
                                                               !.page = [before |-> data.before, after |-> data.after]]
              IN IF lst.op # "anext" THEN u
                 ELSE IF lst.dir = 0 THEN AnextAfterInitialize(u)
                 ELSE AnextAfterFetch(u)
    /\ UNCHANGED <<now, locked, timers, token, tokenExpires, nExch, flows, caller, ct>>

\* The request raises (request() failed): _fetch propagates the error.
FetchFail ==
    /\ lst.pc = "fetching"
    /\ lst' = [lst EXCEPT !.pc = "idle", !.params = NoParams, !.err = "HTTPException",
                          !.initFailed = @ \/ lst.dir = 0]
    /\ UNCHANGED <<now, locked, timers, token, tokenExpires, nExch, flows, caller, ct>>

ListingStep ==
    \/ Await
    \/ ListingNext
    \/ ListingPrev
    \/ Anext
    \/ \E data \in Pages(lst) : FetchReply(data)
    \/ FetchFail

\* The listings a caller may construct.
Listings ==
    {NewListing(b, a, rev, lim, hc, c) :
        b \in {NoneCursor, "c1"}, a \in {NoneCursor, "c1"}, rev \in BOOLEAN,
        lim \in {PyNone} \cup {PyInt(n) : n \in 1..LimitBound} \cup {PyInt(max_limit + 1)},
        hc \in BOOLEAN, c \in {-1, 0, 1, LimitBound + 1}}

\* ------------------------------------------------------------ CommentTree
\* math.inf, the default `depth` of a CommentIterator.
Inf == -1

\* Variant: the comparison with the depth is not strict.
BelowOrEqual(x, depth) == depth = Inf \/ x <= depth

\* `x < depth` for a depth that may be math.inf.
Below(x, depth) == depth = Inf \/ x < depth

\* Thing j and the things it is nested in (0 is the post).
RECURSIVE AncestorsOrSelf(_, _)
AncestorsOrSelf(parent, j) == IF j = 0 THEN {0} ELSE {j} \cup AncestorsOrSelf(parent, parent[j])

\* The comment data of a post: things 1..n, parent[i] the thing that thing i
\* is nested in (0 for the post itself), numbered in the order in which the
\* nested data lists them. A thing is a comment ("t1"), a "more" stub that
\* lists the ids of the things nested in it (possibly none), or a "thread"
\* stub: a "more" with the id '_' and no ids ("continue this thread").
\* The things nested in a stub are the things the server resolves it to.
ThingData(kinds) ==
    UNION {{[n |-> n, parent |-> p, kind |-> k] :
              p \in {q \in [1..n -> 0..n] :
                        \A i \in 1..n : q[i] < i /\ (i > 1 => q[i] \in AncestorsOrSelf(q, i - 1))},
              k \in [1..n -> kinds]} : n \in 0..MaxNodes}

\* The data a walked tree is built from.
Things == ThingData({"t1", "more"})

IsStub(kind) == kind # "t1"

NoThings == [n |-> 0, parent |-> <<>>, kind |-> <<>>]

\* The elements of S in increasing order.
RECURSIVE Ascending(_)
Ascending(S) ==
    IF S = {} THEN <<>>
    ELSE LET x == CHOOSE y \in S : \A z \in S : y <= z
         IN <<x>> \o Ascending(S \ {x})

\* data["replies"]["data"]["children"] of thing k; for k = 0 the comments of the post.
ChildrenData(d, k) == Ascending({i \in 1..d.n : d.parent[i] = k})

\* No request: the value of xreq outside a fetch.
NoRequest == [kind |-> "none", ids |-> <<>>, comment |-> 0]

\* CommentTree.__init__ for the tree of a post, and Comment.__init__ for the
\* reply trees below it (always built from their data). lists[k] is the reply
\* tree of comment k (empty for a stub, which has none), lists[0] the tree of
\* the post. The other fields: the
\* awaits of the tree (pending fetches, calls, fetches, whether two overlapped
\* or one failed, the last return value) and the iterator of the walk in
\* progress (strategy, maxDepth, cur = self._current, queue = self._queue)
\* with what it has yielded and how it ended; and the `await stub` calls
\* (how many, the stub of the last one, the request it has in flight, the
\* number of requests made, the list it returned or the error it raised);
\* and, for `async for` loops over the tree, what the previous loop yielded
\* (first) and whether it ran to its end (firstDone).
NewTree(d, built) ==
    [data |-> d,
     lists |-> [k \in 0..d.n |-> IF (k = 0 /\ ~built) \/ (k # 0 /\ IsStub(d.kind[k]))
                                  THEN <<>> ELSE ChildrenData(d, k)],
     initialized |-> built,
     pending |-> 0, awaits |-> 0, nFetch |-> 0, overlapped |-> FALSE, failed |-> FALSE, aret |-> "none",
     walks |-> 0, strategy |-> "none", maxDepth |-> Inf,
     cur |-> [tree |-> 0, i |-> 0], queue |-> <<>>,
     yielded |-> <<>>, status |-> "none", err |-> "none",
     xcalls |-> 0, xstub |-> 0, xpc |-> "idle", xreq |-> NoRequest, nReq |-> 0,
     xret |-> <<>>, xerr |-> "none",
     first |-> <<>>, firstDone |-> FALSE]

\* Variant: _initialize fetches whether or not the tree is built.
TreeNeedsInitializeAlways(t) == TRUE

\* `if not self._initialized:` of CommentTree._initialize
TreeNeedsInitialize(t) == ~t.initialized

\* `await tree`: _initialize() up to `await self._client.get_post(...)`.
TreeAwait ==
    /\ ct.awaits < MaxAwaits
    /\ ct' = IF TreeNeedsInitialize(ct)
             THEN [ct EXCEPT !.awaits = @ + 1, !.pending = @ + 1, !.nFetch = @ + 1, !.aret = "none",
                             !.overlapped = @ \/ ct.pending > 0]
             ELSE [ct EXCEPT !.awaits = @ + 1, !.aret = "tree"]
    /\ UNCHANGED <<now, locked, timers, token, tokenExpires, nExch, flows, caller, lst>>

\* get_post answers: _fill_data(data[1]) appends the things, the flag is set
\* and the tree is returned.
TreeReply ==
    /\ ct.pending > 0
    /\ ct' = [ct EXCEPT !.pending = @ - 1, !.lists[0] = @ \o ChildrenData(ct.data, 0),
                        !.initialized = TRUE, !.aret = "tree"]
    /\ UNCHANGED <<now, locked, timers, token, tokenExpires, nExch, flows, caller, lst>>

\* get_post raises: the exception leaves _initialize.
TreeFail ==
    /\ ct.pending > 0
    /\ ct' = [ct EXCEPT !.pending = @ - 1, !.failed = TRUE, !.aret = "HTTPException"]
    /\ UNCHANGED <<now, locked, timers, token, tokenExpires, nExch, flows, caller, lst>>

\* tree.depth_first(depth=...) / tree.breadth_first(depth=...):
\* CommentIterator.__init__
WalkStart(strategy, depth) ==
    /\ ct.status # "active" /\ ct.walks < MaxWalks
    /\ ct' = [ct EXCEPT !.walks = @ + 1, !.strategy = strategy, !.maxDepth = depth,
                        !.cur = [tree |-> 0, i |-> 0], !.queue = <<>>,
                        !.yielded = <<>>, !.status = "active", !.err = "none"]
    /\ UNCHANGED <<now, locked, timers, token, tokenExpires, nExch, flows, caller, lst>>

\* Variant: the depth-first iterator queues the replies instead of descending.
HandleRepliesDFSQueued(t, c) ==
    IF t.lists[c] # <<>> /\ Below(Len(t.queue), t.maxDepth)
    THEN [t EXCEPT !.queue = <<[tree |-> c, i |-> 0]>> \o @]
    ELSE t

\* DepthFirstCommentIterator._handle_replies(c.replies)
HandleRepliesDFS(t, c) ==
    IF t.lists[c] # <<>> /\ Below(Len(t.queue), t.maxDepth)
    THEN [t EXCEPT !.queue = Append(@, t.cur), !.cur = [tree |-> c, i |-> 0]]
    ELSE t

\* Variant: the breadth-first iterator appends on the side it pops from.
HandleRepliesBFSStacked(t, c) ==
    IF t.lists[c] # <<>> /\ Below(Len(t.queue), t.maxDepth)
    THEN [t EXCEPT !.queue = Append(@, [tree |-> c, i |-> 0])]
    ELSE t

\* BreadthFirstCommentIterator._handle_replies(c.replies)
HandleRepliesBFS(t, c) ==
    IF t.lists[c] # <<>> /\ Below(Len(t.queue), t.maxDepth)
    THEN [t EXCEPT !.queue = <<[tree |-> c, i |-> 0]>> \o @]
    ELSE t

\* CommentIterator.__anext__: next(self._current), on StopIteration the
\* iterator popped from the right of the queue; a Comment is yielded after
\* _handle_replies; for a More the read of `c.depth`, an attribute More
\* never sets, raises AttributeError.
RECURSIVE WalkLoop(_)
WalkLoop(t) ==
    IF t.cur.i >= Len(t.lists[t.cur.tree])
    THEN IF t.queue # <<>>
         THEN WalkLoop([t EXCEPT !.cur = t.queue[Len(t.queue)],
                                 !.queue = SubSeq(t.queue, 1, Len(t.queue) - 1)])
         ELSE [t EXCEPT !.status = "done"]
    ELSE LET c == t.lists[t.cur.tree][t.cur.i + 1]
             t1 == [t EXCEPT !.cur.i = @ + 1]
         IN IF ~IsStub(t.data.kind[c])
            THEN [(IF t.strategy = "dfs" THEN HandleRepliesDFS(t1, c) ELSE HandleRepliesBFS(t1, c))
                     EXCEPT !.yielded = Append(@, c)]
            ELSE [t1 EXCEPT !.status = "error", !.err = "AttributeError"]

\* One `await iterator.__anext__()` of the walk.
WalkNext ==
    /\ ct.status = "active"
    /\ ct' = WalkLoop(ct)
    /\ UNCHANGED <<now, locked, timers, token, tokenExpires, nExch, flows, caller, lst>>

\* ------------------------------------------------------------------ More
\* The `parent` of the More object of stub i: the Post (0) or the Comment whose
\* tree holds it; the objects made by an expansion get the parent of the
\* expanded stub (`More(self.parent, o)`).
RECURSIVE StubParent(_, _)
StubParent(d, i) ==
    IF d.parent[i] = 0 \/ ~IsStub(d.kind[d.parent[i]]) THEN d.parent[i] ELSE StubParent(d, d.parent[i])

\* More.__init__: `self.post` is the Post when the parent is the Post;
\* otherwise it is `parent.post`, the bound method Comment.post.
StubPostIsPost(d, i) == StubParent(d, i) = 0

\* `self.children` of the stub: the ids it lists.
StubChildren(d, i) == IF d.kind[i] = "more" THEN ChildrenData(d, i) ELSE <<>>

\* The stubs for which a More object exists: those in the trees and those in
\* the list that the last expansion returned.
Materialised(t) ==
    {i \in 1..t.data.n :
        /\ IsStub(t.data.kind[i])
        /\ \/ t.data.parent[i] = 0
           \/ ~IsStub(t.data.kind[t.data.parent[i]])
           \/ \E j \in 1..Len(t.xret) : t.xret[j] = i}

\* `await stub`: More._fetch up to its await. With ids it calls
\* get_more_children(self.post.id, self.children), with the id '_' it calls
\* get_comment(self.post.id, self.parent.id), otherwise it returns [];
\* `self.post.id` raises AttributeError when self.post is a bound method.
ExpandCall(i) ==
    /\ ct.xpc = "idle" /\ ct.xcalls < MaxExpands
    /\ i \in Materialised(ct)
    /\ LET d == ct.data
           t == [ct EXCEPT !.xcalls = @ + 1, !.xstub = i, !.xret = <<>>, !.xerr = "none"]
       IN ct' = IF StubChildren(d, i) # <<>>
                THEN IF StubPostIsPost(d, i)
                     THEN [t EXCEPT !.xpc = "fetching", !.nReq = @ + 1,
                                    !.xreq = [kind |-> "morechildren", ids |-> StubChildren(d, i), comment |-> 0]]
                     ELSE [t EXCEPT !.xerr = "AttributeError"]
                ELSE IF d.kind[i] = "thread"
                THEN IF StubPostIsPost(d, i)
                     THEN [t EXCEPT !.xpc = "fetching", !.nReq = @ + 1,
                                    !.xreq = [kind |-> "comment", ids |-> <<>>, comment |-> StubParent(d, i)]]
                     ELSE [t EXCEPT !.xerr = "AttributeError"]
                ELSE t
    /\ UNCHANGED <<now, locked, timers, token, tokenExpires, nExch, flows, caller, lst>>

\* The request is answered: the things of the answer become the returned list.
ExpandReply ==
    /\ ct.xpc = "fetching"
    /\ ct' = [ct EXCEPT !.xpc = "idle", !.xreq = NoRequest, !.xret = ChildrenData(ct.data, ct.xstub)]
    /\ UNCHANGED <<now, locked, timers, token, tokenExpires, nExch, flows, caller, lst>>

\* The request raises.
ExpandFail ==
    /\ ct.xpc = "fetching"
    /\ ct' = [ct EXCEPT !.xpc = "idle", !.xreq = NoRequest, !.xerr = "HTTPException"]
    /\ UNCHANGED <<now, locked, timers, token, tokenExpires, nExch, flows, caller, lst>>

ExpandStep ==
    \/ \E i \in 1..MaxNodes : ExpandCall(i)
    \/ ExpandReply
    \/ ExpandFail

\* Variant: the new iterator goes on where the previous one stood.
AiterResumed ==
    /\ ct.status # "active" /\ ct.walks < MaxRewalks
    /\ ct' = [ct EXCEPT !.walks = @ + 1, !.strategy = "dfs", !.maxDepth = Inf,
                        !.yielded = <<>>, !.status = "active", !.err = "none",
                        !.first = ct.yielded, !.firstDone = (ct.status = "done")]
    /\ UNCHANGED <<now, locked, timers, token, tokenExpires, nExch, flows, caller, lst>>

\* `async for c in tree`: CommentTree.__aiter__ makes a new depth-first
\* iterator with the default depth, which starts at the first thing.
Aiter ==
    /\ ct.status # "active" /\ ct.walks < MaxRewalks
    /\ ct' = [ct EXCEPT !.walks = @ + 1, !.strategy = "dfs", !.maxDepth = Inf,
                        !.cur = [tree |-> 0, i |-> 0], !.queue = <<>>,
                        !.yielded = <<>>, !.status = "active", !.err = "none",
                        !.first = ct.yielded, !.firstDone = (ct.status = "done")]
    /\ UNCHANGED <<now, locked, timers, token, tokenExpires, nExch, flows, caller, lst>>

RewalkStep ==
    \/ Aiter
    \/ WalkNext

\* The `depth` arguments of the walks.
Depths == {Inf} \cup 0..MaxDepth

TreeStep ==
    \/ TreeAwait
    \/ TreeReply
    \/ TreeFail
    \/ \E strategy \in {"dfs", "bfs"} : \E depth \in Depths : WalkStart(strategy, depth)
    \/ WalkNext

\* A direct user of a RateLimitLock: how many calls and lock() calls it made, its last call
\* (op, arg, time, error raised) and the unlocker tasks its calls created
\* (how many, and for the last one its delay, its end and the lock() calls
\* made before it).
NewCaller == [calls |-> 0, locks |-> 0, op |-> "none", arg |-> PyNone, at |-> 0, err |-> "none",
              made |-> 0, tmo |-> 0, due |-> 0, locksBefore |-> 0]

Init ==
    /\ now = 0
    /\ locked = FALSE
    /\ timers = EmptyBag
    /\ token = NoToken
    /\ tokenExpires = 0
    /\ nExch = 0
    /\ flows = [f \in Flows |-> NewFlow]
    /\ caller = NewCaller
    /\ lst = NewListing(NoneCursor, NoneCursor, FALSE, PyNone, FALSE, 0)
    /\ ct = NewTree(NoThings, TRUE)

Next ==
    \/ \E f \in Flows : Call(f)
    \/ \E f \in Flows : Resume(f)
    \/ \E f \in Flows : \E data \in TokenReplies(f) : ExchangeReply(f, data)
    \/ \E f \in Flows : HandleExchange(f)
    \/ \E f \in Flows : \E resp \in Responses(f) : Response(f, resp)
    \/ \E f \in Flows : HandleResponse(f)
    \/ \E due \in BagToSet(timers) : TimerFire(due)
    \/ Tick

Spec == Init /\ [][Next]_vars

ListingInit ==
    /\ now = 0 /\ locked = FALSE /\ timers = EmptyBag
    /\ token = NoToken /\ tokenExpires = 0 /\ nExch = 0
    /\ flows = [f \in Flows |-> NewFlow]
    /\ caller = NewCaller
    /\ lst \in Listings
    /\ ct = NewTree(NoThings, TRUE)

ListingSpec == ListingInit /\ [][ListingStep]_vars

\* A post's comment tree, built from the post's data or lazily.
TreeInit ==
    /\ now = 0 /\ locked = FALSE /\ timers = EmptyBag
    /\ token = NoToken /\ tokenExpires = 0 /\ nExch = 0
    /\ flows = [f \in Flows |-> NewFlow]
    /\ caller = NewCaller
    /\ lst = NewListing(NoneCursor, NoneCursor, FALSE, PyNone, FALSE, 0)
    /\ \E d \in Things : \E built \in BOOLEAN : ct = NewTree(d, built)

TreeSpec == TreeInit /\ [][TreeStep]_vars

\* A post's comment tree, built from the post's data and walked repeatedly.
RewalkInit ==
    /\ now = 0 /\ locked = FALSE /\ timers = EmptyBag
    /\ token = NoToken /\ tokenExpires = 0 /\ nExch = 0
    /\ flows = [f \in Flows |-> NewFlow]
    /\ caller = NewCaller
    /\ lst = NewListing(NoneCursor, NoneCursor, FALSE, PyNone, FALSE, 0)
    /\ \E d \in Things : ct = NewTree(d, TRUE)

RewalkSpec == RewalkInit /\ [][RewalkStep]_vars

\* A post's comment tree with its stubs, built from the post's data.
ExpandInit ==
    /\ now = 0 /\ locked = FALSE /\ timers = EmptyBag
    /\ token = NoToken /\ tokenExpires = 0 /\ nExch = 0
    /\ flows = [f \in Flows |-> NewFlow]
    /\ caller = NewCaller
    /\ lst = NewListing(NoneCursor, NoneCursor, FALSE, PyNone, FALSE, 0)
    /\ \E d \in ThingData({"t1", "more", "thread"}) : ct = NewTree(d, TRUE)

ExpandSpec == ExpandInit /\ [][ExpandStep]_vars

\* ------------------------------------------------ RateLimitLock on its own
\* lock = asyncio.Event.clear
GLock ==
    /\ caller.calls < MaxGateCalls
    /\ locked' = TRUE
    /\ caller' = [caller EXCEPT !.calls = @ + 1, !.locks = @ + 1, !.op = "lock", !.arg = PyNone, !.at = now, !.err = "none"]
    /\ UNCHANGED <<now, timers, token, tokenExpires, nExch, flows, lst, ct>>

\* unlock_after(timeout), called directly.
GUnlockAfter(timeout) ==
    /\ caller.calls < MaxGateCalls
    /\ timeout \in TimeoutVals
    /\ now + timeout.num <= MaxTime
    /\ timers' = UnlockAfter(timers, timeout)
    /\ caller' = IF UnlockAfterRaises(timeout)
                 THEN [caller EXCEPT !.calls = @ + 1, !.op = "unlock_after", !.arg = timeout, !.at = now,
                                     !.err = "RuntimeError"]
                 ELSE [caller EXCEPT !.calls = @ + 1, !.op = "unlock_after", !.arg = timeout, !.at = now,
                                     !.err = "none", !.made = @ + 1, !.tmo = timeout.num,
                                     !.due = NewTimer(timeout), !.locksBefore = caller.locks]
    /\ UNCHANGED <<now, locked, token, tokenExpires, nExch, flows, lst, ct>>

GateNext ==
    \/ GLock
    \/ \E timeout \in TimeoutVals : GUnlockAfter(timeout)
    \/ \E due \in BagToSet(timers) : TimerFire(due)
    \/ Tick

GateSpec == Init /\ [][GateNext]_vars

\* The event loop runs every task whose sleep has ended, and time passes.
FairGateSpec == GateSpec /\ WF_vars(Tick) /\ WF_vars(\E due \in BagToSet(timers) : TimerFire(due))

\* ================================================================ claims
\* What a claim means by the header values, independently of how the code
\* reads them.
HeaderIsZero(h) == h.type = "str" /\ IsDecimal(h.chars) /\ ParseInt(h.chars) = 0
HeaderIsPositive(h) == h.type = "str" /\ IsDecimal(h.chars) /\ ParseInt(h.chars) > 0
HeaderIsNumber(h) == h.type = "str" /\ IsDecimal(h.chars)
HeaderDelay(h) == ParseInt(h.chars)

\* Flow f runs the body of the `async with` block in this step.
Handles(f) == flows[f].pc = "got" /\ flows'[f].pc # "got"

\* Flow f hands its API request to the session in this step.
Sends(f) == flows[f].pc # "inflight" /\ flows'[f].pc = "inflight"

\* Flow f calls _get_token() in this step.
CallsGetToken(f) == flows[f].pc \in {"idle", "woken"} /\ flows'[f].pc \in {"exch", "inflight"}

\* C1: in every interleaving of request() flows on one client, no API
\* request is sent while the rate-limit gate is closed (also not by a flow
\* that returned from wait() and was suspended in the token exchange).
C1_NoSendWhileClosed == [][\A f \in Flows : Sends(f) => ~locked']_vars

\* C2: after one lock() followed by one unlock_after(t), t > 0, and no other
\* lock or timer, the gate stays closed until t has elapsed, is open at some
\* later point, and it is the timer task, not the caller, that reopens it.
SingleCloseAndTimer == caller.locks = 1 /\ caller.made = 1 /\ caller.tmo > 0 /\ caller.locksBefore = 1

C2_ReopenAfterDelay ==
    /\ [](SingleCloseAndTimer /\ now < caller.due => locked)
    /\ ((SingleCloseAndTimer /\ locked) ~> (~locked \/ ~SingleCloseAndTimer))
    /\ [][locked /\ ~locked' => caller' = caller /\ now >= caller.at]_vars

C2_Witness == SingleCloseAndTimer /\ ~locked /\ now >= caller.due /\ timers = EmptyBag

\* C3: a response reporting zero remaining quota with a positive reset delay d
\* is not returned: the gate is closed, a reopen after d is scheduled and the
\* flow goes back to wait for the gate.
C3_ZeroRemainingRetried ==
    [][\A f \in Flows :
        Handles(f) /\ HeaderIsZero(flows[f].resp.remaining) /\ HeaderIsPositive(flows[f].resp.reset)
        => /\ flows'[f].pc = "wait"
           /\ locked'
           /\ BagIn(now + HeaderDelay(flows[f].resp.reset), timers')]_vars

\* C4: a 429 response is never returned and never raised as an HTTP error;
\* with a positive reset delay d the gate is closed, a reopen after d is
\* scheduled and the flow waits; a waiting flow leaves wait() only in a step
\* that opens the gate; a later 200 response is returned with its body.
C4_RateLimitRecovered ==
    [][\A f \in Flows :
        /\ Handles(f) /\ flows[f].resp.status = 429
           => flows'[f].pc # "done" /\ flows'[f].err # "HTTPException"
        /\ Handles(f) /\ flows[f].resp.status = 429 /\ HeaderIsPositive(flows[f].resp.reset)
           => /\ flows'[f].pc = "wait"
              /\ locked'
              /\ CopiesIn(now + HeaderDelay(flows[f].resp.reset), timers')
                    = CopiesIn(now + HeaderDelay(flows[f].resp.reset), timers) + 1
        /\ flows[f].pc = "wait" /\ flows'[f].pc # "wait"
           => locked /\ ~locked' /\ flows'[f].pc = "woken"
        /\ Handles(f) /\ flows[f].resp.status = 200 /\ ~HeaderIsZero(flows[f].resp.remaining)
           => flows'[f].pc = "done" /\ flows'[f].result = flows[f].resp.body]_vars

C4_Witness == \E f \in Flows : flows[f].pc = "done" /\ flows[f].attempts = 2 /\ flows[f].result = <<f, 2>>

\* C5: a rate-limited response (429 or zero remaining quota) without a
\* numeric reset-delay header makes request() fail with an error instead of
\* going back to block on the closed gate.
C5_NoDelayFails ==
    [][\A f \in Flows :
        Handles(f) /\ (flows[f].resp.status = 429 \/ HeaderIsZero(flows[f].resp.remaining))
                   /\ ~HeaderIsNumber(flows[f].resp.reset)
        => flows'[f].pc = "error"]_vars

\* C6 (as claimed): unlock_after with a missing, zero or negative delay raises
\* at once, creates no unlocker task and does not open the gate.
DirectUnlockAfter == caller'.calls = caller.calls + 1 /\ caller'.op = "unlock_after"

C6_NonPositiveDelayRaises ==
    [][DirectUnlockAfter /\ (caller'.arg.type = "none" \/ caller'.arg.num <= 0)
       => caller'.err = "RuntimeError" /\ timers' = timers /\ locked' = locked]_vars

\* C6 (amended): unlock_after with a missing or zero delay raises at once,
\* creates no unlocker task and does not open the gate; with a negative delay
\* it raises nothing and creates an unlocker task whose sleep is already over.
C6_MissingOrZeroDelayRaises ==
    [][/\ DirectUnlockAfter /\ (caller'.arg.type = "none" \/ caller'.arg.num = 0)
          => caller'.err = "RuntimeError" /\ timers' = timers /\ locked' = locked
       /\ DirectUnlockAfter /\ caller'.arg.type = "int" /\ caller'.arg.num < 0
          => /\ caller'.err = "none" /\ locked' = locked
             /\ BagCardinality(timers') = BagCardinality(timers) + 1
             /\ \E due \in BagToSet(timers') : due < now /\ CopiesIn(due, timers') = CopiesIn(due, timers) + 1]_vars

C6_Witness ==
    /\ caller.op = "unlock_after" /\ caller.arg = PyInt(0) /\ caller.err = "RuntimeError"
    /\ locked /\ timers = EmptyBag /\ caller.made = 0

\* C7: a response that is neither a success nor rate-limited raises an
\* HTTPException carrying the status and the response body, after that one
\* attempt and without touching the gate.
C7_HttpErrorCarriesBody ==
    [][\A f \in Flows :
        Handles(f) /\ flows[f].resp.status \notin {200, 429} /\ ~HeaderIsZero(flows[f].resp.remaining)
        => /\ flows'[f].pc = "error"
           /\ flows'[f].err = "HTTPException"
           /\ flows'[f].errStatus = flows[f].resp.status
           /\ flows'[f].errData = flows[f].resp.body
           /\ flows'[f].attempts = flows[f].attempts
           /\ locked' = locked /\ timers' = timers]_vars

\* C8 (as claimed): with a token cached that expires at T+L, every
\* _get_token() call at a time t <= T+L is served from the cache, and a call
\* after T+L starts exactly one exchange.
C8_CachedThroughExpiry ==
    [][\A f \in Flows :
        CallsGetToken(f) /\ token # NoToken
        => IF now <= tokenExpires
           THEN flows'[f].pc = "inflight" /\ flows'[f].tok = token /\ nExch' = nExch
           ELSE flows'[f].pc = "exch" /\ nExch' = nExch + 1]_vars

\* C8 (amended): with a token cached that expires at T+L, every _get_token()
\* call at a time t < T+L is served from the cache without an exchange; a
\* call at t >= T+L starts exactly one exchange, whose successful reply is
\* cached with expiry (time the call started) + (reported lifetime).
C8_CachedBeforeExpiry ==
    [][\A f \in Flows :
        /\ CallsGetToken(f) /\ token # NoToken
           => IF now < tokenExpires
              THEN flows'[f].pc = "inflight" /\ flows'[f].tok = token /\ nExch' = nExch
              ELSE flows'[f].pc = "exch" /\ nExch' = nExch + 1 /\ flows'[f].tnow = now
        /\ flows[f].pc = "exchGot" /\ flows'[f].pc = "inflight"
           => /\ token' = flows[f].data.access_token
              /\ tokenExpires' = flows[f].tnow + flows[f].data.expires_in
              /\ flows'[f].tok = token']_vars

C8_Witness ==
    \E g \in Flows :
        /\ flows[g].pc = "exch" /\ flows[g].attempts = 1
        /\ nExch = 2 /\ token = 1 /\ flows[g].tnow >= tokenExpires
        /\ \A f \in Flows : flows[f].attempts >= 1

\* C9: a credential reply whose token type is not bearer makes _get_token()
\* raise UnsupportedTokenType after that one exchange, leaves the cached token
\* and expiry as they were, and ends request() without a retry and without
\* sending the API request.
C9_UnsupportedTokenType ==
    [][\A f \in Flows :
        /\ flows[f].pc = "exchGot" /\ flows'[f].pc # "exchGot"
              /\ flows[f].data.status = 200 /\ ~flows[f].data.error
              /\ Lower(flows[f].data.token_type) # Bearer
           => /\ flows'[f].pc = "error" /\ flows'[f].err = "UnsupportedTokenType"
              /\ token' = token /\ tokenExpires' = tokenExpires
              /\ nExch' = nExch
              /\ flows'[f].attempts = flows[f].attempts
        /\ flows[f].pc = "error" => flows'[f] = flows[f]]_vars

C9_Witness ==
    \E f \in Flows : flows[f].pc = "error" /\ flows[f].err = "UnsupportedTokenType"
                     /\ flows[f].data.token_type = <<"m", "a", "c">> /\ flows[f].attempts = 0

\* C10: next() or prev() on a listing that was never initialized raises
\* RedditException, issues no fetch and leaves count, before, after and the
\* buffer as they were.
C10_UninitializedRejected ==
    [][lst'.ops = lst.ops + 1 /\ lst'.op \in {"next", "prev"} /\ ~lst.initialized
       => /\ lst'.err = "RedditException"
          /\ lst'.pc = "idle" /\ lst'.nFetch = lst.nFetch
          /\ lst'.count = lst.count /\ lst'.before = lst.before /\ lst'.after = lst.after
          /\ lst'.buf = lst.buf /\ lst'.initialized = lst.initialized]_vars

C10_Witness == lst.op \in {"next", "prev"} /\ lst.err = "RedditException" /\ ~lst.initialized /\ lst.nFetch = 0

\* A call of `name` begins in this step.
Calls(name) == lst'.ops = lst.ops + 1 /\ lst'.op = name

\* The step issues a request to the endpoint.
IssuesRequest == lst'.nFetch = lst.nFetch + 1

\* The listing object is the same after the step.
ListingUntouched ==
    /\ lst'.count = lst.count /\ lst'.before = lst.before /\ lst'.after = lst.after
    /\ lst'.buf = lst.buf /\ lst'.initialized = lst.initialized

\* C11: over any sequence of initialize() calls the direction-0 fetch is made
\* exactly once, by the first call; every later call issues no request and
\* leaves count, both cursors and the buffer as they were.
C11_InitializeOnce ==
    /\ [](lst.nInitFetch = IF lst.initialized THEN 1 ELSE 0)
    /\ [][/\ (Calls("await") /\ ~lst.initialized)
             => (lst'.nInitFetch = 1 /\ ((IssuesRequest /\ lst'.dir = 0) \/ lst'.ret = "false"))
          /\ (Calls("await") /\ lst.initialized)
             => (~IssuesRequest /\ lst'.pc = "idle" /\ ListingUntouched)
          /\ (IssuesRequest /\ lst'.dir = 0) => ~lst.initialized]_vars

C11_Witness ==
    /\ lst.op = "await" /\ lst.ops = 2 /\ lst.pc = "idle" /\ lst.nInitFetch = 1 /\ lst.nFetch = 1
    /\ lst.buf # <<>> /\ lst.got = <<>>

\* C12 (as stated): with limit set and pages no larger than requested, after
\* initialize() and after every next() or prev() call 0 <= count <= limit.
C12_CountWithinLimit ==
    (lst.limit # PyNone /\ lst.initialized /\ lst.pc = "idle") => (0 <= lst.count /\ lst.count <= lst.limit.num)

\* C12 (amended): with limit set and pages no larger than requested, a
\* listing whose count is not above limit keeps count <= limit through every
\* call, and count >= 0 from initialize() on.
C12_CountStaysWithinLimit ==
    /\ []((lst.limit # PyNone /\ lst.initialized) => 0 <= lst.count)
    /\ [][(lst.limit # PyNone /\ lst.count <= lst.limit.num) => lst'.count <= lst'.limit.num]_vars

C12_Witness ==
    /\ lst.limit # PyNone /\ lst.pc = "idle" /\ lst.op \in {"next", "prev"} /\ lst.ret = "true"
    /\ lst.nFetch = 2 /\ lst.count = lst.limit.num

\* C13: when a next() (prev()) call has returned false, a further next()
\* (prev()) call returns false too and issues no request.
C13_ExhaustedStaysExhausted ==
    [][(lst.pc = "idle" /\ lst.op \in {"next", "prev"} /\ lst.ret = "false" /\ Calls(lst.op))
       => (lst'.pc = "idle" /\ lst'.ret = "false" /\ ~IssuesRequest)]_vars

\* C14 (as stated): a next() call leaves the stored before cursor as it was
\* and a prev() call leaves the stored after cursor as it was.
C14_OppositeCursorKept ==
    [][/\ (lst'.op = "next") => (lst'.before = lst.before)
       /\ (lst'.op = "prev") => (lst'.after = lst.after)]_vars

\* C14 (amended): a next() or prev() call that receives a response stores
\* both the before and the after cursor of that response; a call that
\* receives none changes neither cursor.
C14_BothCursorsFromResponse ==
    /\ [][(lst'.op \in {"next", "prev"} /\ ~(lst.pc = "fetching" /\ lst'.err = "none"))
          => (lst'.before = lst.before /\ lst'.after = lst.after)]_vars
    /\ [][(lst.op \in {"next", "prev"} /\ lst.pc = "fetching" /\ lst'.err = "none")
          => (lst'.before = lst'.page.before /\ lst'.after = lst'.page.after)]_vars

C14_Witness ==
    /\ lst.op = "next" /\ lst.pc = "idle" /\ lst.ret = "true" /\ lst.nFetch = 2
    /\ lst.page.before = "c2" /\ lst.before = "c2" /\ lst.after = "c1"

\* C15: with limit L set, forward direction and count 0 the initializing
\* fetch requests min(L, max_limit) items, and whenever count >= L a next()
\* call returns false without a request.
C15_ForwardPageSize ==
    [][/\ (~lst.initialized /\ lst'.initialized
            /\ lst.limit # PyNone /\ ~lst.reverse /\ ClampCount(lst.count) = 0)
          => (IssuesRequest /\ lst'.pc = "fetching" /\ lst'.dir = 0
              /\ lst'.params.limit = Min(lst.limit.num, max_limit))
       /\ (Calls("next") /\ lst.initialized
            /\ lst.limit # PyNone /\ ~lst.reverse /\ lst.count >= lst.limit.num)
          => (lst'.pc = "idle" /\ lst'.ret = "false" /\ ~IssuesRequest)]_vars

C15_Witness ==
    /\ lst.op = "next" /\ lst.pc = "idle" /\ lst.ret = "false" /\ lst.nFetch = 1
    /\ lst.limit # PyNone /\ ~lst.reverse /\ lst.count = lst.limit.num /\ lst.buf # <<>>

\* C16: continuous iteration on a fresh listing yields the items of each
\* fetched page once each in buffer order; when the buffer is exhausted it
\* issues one fetch in the configured direction (backward when reverse is
\* set) and it ends when that fetch reports no continuation.
C16_IterationYieldsPagesInOrder ==
    /\ [](~lst.manual => (Len(lst.got) <= Len(lst.buf) /\ lst.got = SubSeq(lst.buf, 1, Len(lst.got))))
    /\ [][~lst'.manual
          => /\ (lst'.ret = "item" /\ lst'.got # lst.got)
                => (lst'.got # <<>> /\ lst'.yielded = lst'.buf[Len(lst'.got)])
             /\ (IssuesRequest /\ lst'.dir # 0)
                => (lst.got = lst.buf /\ lst'.dir = (IF lst.reverse THEN -1 ELSE 1))
             /\ (Calls("anext") /\ lst.initialized /\ Len(lst.got) < Len(lst.buf))
                => (lst'.ret = "item" /\ lst'.got = Append(lst.got, lst'.yielded) /\ ~IssuesRequest)
             /\ (lst.pc = "fetching" /\ lst.dir # 0 /\ lst'.pc = "idle" /\ lst'.err = "none")
                => \/ lst'.count = lst.count /\ lst'.ret = "stop" /\ lst'.buf = lst.buf
                   \/ lst'.count # lst.count /\ lst'.ret = "item" /\ lst'.got = <<lst'.buf[1]>>
             /\ (Calls("anext") /\ lst'.pc = "idle" /\ lst'.err = "none" /\ lst'.ret # "item")
                => lst'.ret = "stop"]_vars

C16_Witness ==
    /\ ~lst.manual /\ lst.op = "anext" /\ lst.ret = "item" /\ lst.nFetch = 2
    /\ lst.reverse /\ lst.dir = -1 /\ lst.got = <<lst.buf[1]>> /\ Len(lst.buf) = 2

\* The comments among the things of the data.
CommentsOf(d) == {i \in 1..d.n : d.kind[i] = "t1"}

\* The tree holds no "more" stub.
NoStubs(d) == \A i \in 1..d.n : d.kind[i] = "t1"

\* The walk runs over a tree that was built from its data before the walk
\* and was never awaited.
BuiltTree == ct.initialized /\ ct.awaits = 0

\* How many times x occurs in seq.
Occurrences(seq, x) == Cardinality({i \in 1..Len(seq) : seq[i] = x})

\* Nesting depth of thing i: 0 for the comments of the post.
RECURSIVE DepthOf(_, _)
DepthOf(d, i) == IF d.parent[i] = 0 THEN 0 ELSE 1 + DepthOf(d, d.parent[i])

\* Each thing of seq followed by its whole subtree.
RECURSIVE Preorder(_, _)
Preorder(d, seq) ==
    IF seq = <<>> THEN <<>>
    ELSE <<Head(seq)>> \o Preorder(d, ChildrenData(d, Head(seq))) \o Preorder(d, Tail(seq))

\* The replies of the things of seq, in the order of seq.
RECURSIVE RepliesOfAll(_, _)
RepliesOfAll(d, seq) ==
    IF seq = <<>> THEN <<>> ELSE ChildrenData(d, Head(seq)) \o RepliesOfAll(d, Tail(seq))

\* The things of seq, then their replies, then the replies of those, ...
RECURSIVE LevelOrder(_, _)
LevelOrder(d, seq) ==
    IF seq = <<>> THEN <<>> ELSE seq \o LevelOrder(d, RepliesOfAll(d, seq))

\* Where x stands in seq.
PositionIn(seq, x) == CHOOSE i \in 1..Len(seq) : seq[i] = x

IsPrefix(a, b) == Len(a) <= Len(b) /\ a = SubSeq(b, 1, Len(a))

C18_WalksYieldEveryComment ==
    (BuiltTree /\ ct.maxDepth = Inf /\ ct.status \in {"done", "error"})
        => /\ ct.status = "done"
           /\ \A c \in CommentsOf(ct.data) : Occurrences(ct.yielded, c) = 1
           /\ \A k \in 0..ct.data.n : \A j \in 1..Len(ct.lists[k]) : ct.data.kind[ct.lists[k][j]] = "t1"

RECURSIVE NextRead(_)
NextRead(t) ==
    IF t.cur.i < Len(t.lists[t.cur.tree]) THEN t.lists[t.cur.tree][t.cur.i + 1]
    ELSE IF t.queue # <<>>
    THEN NextRead([t EXCEPT !.cur = t.queue[Len(t.queue)], !.queue = SubSeq(t.queue, 1, Len(t.queue) - 1)])
    ELSE 0

\* The step is one __anext__ call of the walk in progress.
WalkSteps ==
    /\ ct.status = "active" /\ ct' # ct
    /\ ct'.walks = ct.walks /\ ct'.awaits = ct.awaits /\ ct'.pending = ct.pending

\* C21: when a walk (unbounded maxDepth) comes to a stub, the nodes the stub
\* resolves to take its place: the first of them is the next node yielded,
\* before any sibling that followed the stub.
C21_ExpansionTakesStubPosition ==
    [][(/\ WalkSteps /\ BuiltTree /\ ct.maxDepth = Inf
        /\ NextRead(ct) # 0 /\ IsStub(ct.data.kind[NextRead(ct)])
        /\ ChildrenData(ct.data, NextRead(ct)) # <<>>
        /\ ~IsStub(ct.data.kind[ChildrenData(ct.data, NextRead(ct))[1]]))
       => ct'.yielded = Append(ct.yielded, ChildrenData(ct.data, NextRead(ct))[1])]_vars

\* The data of the example: C1 without replies, then a stub that resolves to C2, C3.
StubExample == [n |-> 4, parent |-> <<0, 0, 2, 2>>, kind |-> <<"t1", "more", "t1", "t1">>]

\* C22: a walk yields no stub, a complete walk with unbounded maxDepth leaves
\* no stub in any sequence, and for [C1, Stub -> [C2, C3]] the depth-first
\* walk yields C1, C2, C3 and leaves the sequence [C1, C2, C3].
C22_NoStubRemains ==
    /\ \A j \in 1..Len(ct.yielded) : ~IsStub(ct.data.kind[ct.yielded[j]])
    /\ (BuiltTree /\ ct.maxDepth = Inf /\ ct.status \in {"done", "error"})
          => /\ ct.status = "done"
             /\ \A k \in 0..ct.data.n : \A j \in 1..Len(ct.lists[k]) : ~IsStub(ct.data.kind[ct.lists[k][j]])
             /\ (ct.data = StubExample /\ ct.strategy = "dfs")
                   => ct.yielded = <<1, 3, 4>> /\ ct.lists[0] = <<1, 3, 4>>

\* The step is an `await stub` call on stub i.
Expands(i) == ct'.xcalls = ct.xcalls + 1 /\ ct'.xstub = i

\* C23: expanding a stub that lists child ids issues exactly one batched
\* request for exactly those ids; expanding a "continue thread" stub issues
\* exactly one fetch of the comment it hangs under; the call returns the
\* nodes the answer holds.
C23_ExpandIssuesOneRequest ==
    [][/\ \A i \in 1..ct.data.n :
             (Expands(i) /\ StubChildren(ct.data, i) # <<>>)
             => /\ ct'.nReq = ct.nReq + 1 /\ ct'.xpc = "fetching"
                /\ ct'.xreq = [kind |-> "morechildren", ids |-> StubChildren(ct.data, i), comment |-> 0]
       /\ \A i \in 1..ct.data.n :
             (Expands(i) /\ ct.data.kind[i] = "thread")
             => /\ ct'.nReq = ct.nReq + 1 /\ ct'.xpc = "fetching"
                /\ ct'.xreq = [kind |-> "comment", ids |-> <<>>, comment |-> StubParent(ct.data, i)]
       /\ (ct.xpc = "fetching" /\ ct'.xpc = "idle" /\ ct'.xerr = "none")
             => ct'.nReq = ct.nReq /\ ct'.xret = ChildrenData(ct.data, ct.xstub)]_vars

\* Nesting depth of the sequence `tree`: 0 for the post's comments.
SequenceDepth(d, tree) == IF tree = 0 THEN 0 ELSE DepthOf(d, tree) + 1

\* C24: a depth-first walk with maxDepth = d over a tree without stubs never
\* descends into a reply sequence nested deeper than d: it yields no comment
\* at depth greater than d, and it yields every comment at depth <= d (once).
C24_DepthFirstBounded ==
    (BuiltTree /\ NoStubs(ct.data) /\ ct.strategy = "dfs" /\ ct.maxDepth # Inf)
       => /\ SequenceDepth(ct.data, ct.cur.tree) <= ct.maxDepth
          /\ \A j \in 1..Len(ct.yielded) : DepthOf(ct.data, ct.yielded[j]) <= ct.maxDepth
          /\ \A c \in CommentsOf(ct.data) : Occurrences(ct.yielded, c) <= 1
          /\ ct.status = "done"
                => \A c \in CommentsOf(ct.data) :
                      DepthOf(ct.data, c) <= ct.maxDepth => Occurrences(ct.yielded, c) = 1

C24_Witness ==
    /\ BuiltTree /\ NoStubs(ct.data) /\ ct.strategy = "dfs" /\ ct.maxDepth = 1
    /\ ct.status = "done" /\ ct.data.n = 4 /\ ct.data.parent = <<0, 1, 2, 0>>
    /\ ct.yielded = <<1, 2, 4>>

\* What a walk yields from state t until it ends.
RECURSIVE WalkResult(_)
WalkResult(t) == IF t.status = "active" THEN WalkResult(WalkLoop(t)) ELSE t.yielded

\* A new depth-first iterator over the tree of t, with t's maxDepth.
DepthFirstOf(t) ==
    [t EXCEPT !.strategy = "dfs", !.cur = [tree |-> 0, i |-> 0], !.queue = <<>>,
              !.yielded = <<>>, !.status = "active", !.err = "none"]

SetOf(seq) == {seq[j] : j \in 1..Len(seq)}

\* C25: on a tree without stubs a complete breadth-first walk with a finite
\* maxDepth has yielded the same set of comments as the depth-first walk
\* with that maxDepth.
C25_BreadthFirstSameSet ==
    (BuiltTree /\ NoStubs(ct.data) /\ ct.strategy = "bfs" /\ ct.maxDepth # Inf /\ ct.status = "done")
       => SetOf(ct.yielded) = SetOf(WalkResult(DepthFirstOf(ct)))

\* C26: a request() call made while the gate is closed suspends in wait()
\* without starting a token exchange or sending a request; a flow suspended
\* in wait() does nothing until a step that opens the gate resolves its
\* future, and only then goes on.
C26_ClosedGateSuspendsCall ==
    [][\A f \in Flows :
        /\ (flows[f].pc = "idle" /\ flows'[f].pc # "idle" /\ locked)
              => /\ flows'[f] = [flows[f] EXCEPT !.pc = "wait"]
                 /\ nExch' = nExch
        /\ (flows[f].pc = "wait" /\ flows'[f] # flows[f])
              => /\ locked /\ ~locked'
                 /\ flows'[f] = [flows[f] EXCEPT !.pc = "woken"]
                 /\ nExch' = nExch
        /\ (Sends(f) \/ flows'[f].xid > flows[f].xid) => flows[f].pc # "wait"]_vars

C26_Witness ==
    \E g \in Flows : flows[g].pc = "woken" /\ flows[g].attempts = 0 /\ ~locked /\ now > 0 /\ nExch = 1

\* C27: in every reachable state in which the gate is closed, at least one
\* reopen timer is pending.
C27_ClosedHasPendingReopen == locked => timers # EmptyBag

\* C28: when the gate reopens, no reopen timer scheduled for it is left whose
\* delay has not elapsed yet: an earlier timer does not open the gate before
\* the later-scheduled delay has elapsed.
C28_LastTimerReopens ==
    [][(locked /\ ~locked') => \A due \in BagToSet(timers') : due <= now]_vars

\* C29: when the gate reopens, every flow blocked in wait() at that moment
\* returns from wait(); while the gate is open no flow is blocked in wait();
\* a flow that returned from wait() goes on to _get_token, whatever the gate
\* has become since.
C29_AllWaitersReleased ==
    [][/\ (locked /\ ~locked')
            => \A f \in Flows : flows[f].pc = "wait" => flows'[f].pc = "woken"
       /\ ~locked' => \A f \in Flows : flows'[f].pc # "wait"
       /\ \A f \in Flows : (flows[f].pc = "woken" /\ flows'[f] # flows[f])
            => flows'[f].pc \in {"exch", "inflight"}]_vars

C29_Witness == ~locked /\ \A f \in Flows : flows[f].pc = "woken"

\* C30: every caller of _get_token that finds the token missing or expired
\* starts its own exchange, also when another one is in flight; the cached
\* token and its expiry change only together, in the step that completes one
\* exchange, to that exchange's token and that exchange's expiry.
EntersGetToken(f) ==
    flows'[f] # flows[f] /\ (flows[f].pc = "woken" \/ (flows[f].pc = "idle" /\ ~locked))

C30_NoSingleFlightAtomicPair ==
    [][/\ \A f \in Flows :
            (EntersGetToken(f) /\ NeedsRefresh(token, tokenExpires, now, FALSE))
               => /\ flows'[f].pc = "exch"
                  /\ nExch' = nExch + 1
                  /\ flows'[f].xid = nExch'
       /\ (token' # token \/ tokenExpires' # tokenExpires)
            => \E f \in Flows :
                  /\ flows[f].pc = "exchGot" /\ flows'[f].pc = "inflight"
                  /\ token' = flows[f].data.access_token
                  /\ token' = flows[f].xid
                  /\ tokenExpires' = flows[f].tnow + flows[f].data.expires_in]_vars

C30_Witness ==
    /\ \A f \in Flows : flows[f].pc = "inflight" /\ flows[f].attempts = 1
    /\ nExch = 2
    /\ \E f \in Flows : flows[f].tok = 2
    /\ token = 1

\* C31: in every state of a listing that has issued a request, with limit set
\* or unset and also after a completed prev(), count >= 0.
C31_CountNeverNegative == lst.nFetch > 0 => lst.count >= 0

\* C32: count is monotonic within one direction: a step of a next() call
\* never decreases count and a step of a prev() call never increases it.
C32_CountMonotonic ==
    [][/\ (lst'.op = "next") => (lst'.count >= lst.count)
       /\ (lst'.op = "prev") => (lst'.count <= lst.count)]_vars

\* The endpoint's response is processed in this step.
ReceivesPage == lst.pc = "fetching" /\ lst'.pc = "idle" /\ lst'.err # "HTTPException"

\* The number of items of the page received in this step (dist).
PageSize == IF lst'.count >= lst.count THEN lst'.count - lst.count ELSE lst.count - lst'.count

\* C33: after a fetch that returned a non-empty page the buffer consists of
\* exactly that page's items, in server order, or reversed when reverse is
\* set: it holds nothing of an earlier page.
C33_BufferIsOnePage ==
    [][(ReceivesPage /\ PageSize > 0)
       => /\ Len(lst'.buf) = PageSize
          /\ \A i \in 1..PageSize :
                lst'.buf[i] = (IF lst.reverse THEN Items[PageSize + 1 - i] ELSE Items[i])]_vars

C33_Witness ==
    /\ lst.pc = "idle" /\ lst.op = "next" /\ lst.ret = "true" /\ lst.nFetch = 2
    /\ lst.reverse /\ lst.buf = <<"t3_b", "t3_a">>

\* C34: every fetch that issues a request replaces the buffer with the
\* response's items, so after a fetch that returned an empty page the buffer
\* is empty.
C34_EmptyPageEmptiesBuffer ==
    [][(ReceivesPage /\ PageSize = 0) => lst'.buf = <<>>]_vars

\* C35: continuous iteration on a listing that was initialized by an
\* explicit `await listing` and holds the first page yields the first
\* buffered item, as iteration on a fresh listing does.
C35_IterationAfterAwait ==
    [][(Calls("anext") /\ lst.initialized /\ lst.ops = 1 /\ lst.op = "await" /\ lst.buf # <<>>)
       => (lst'.err = "none" /\ lst'.ret = "item" /\ lst'.yielded = lst.buf[1])]_vars

\* Continuous forward iteration with limit L set, starting at count 0, with
\* no other call on the listing.
ForwardIteration ==
    ~lst.manual /\ lst.limit # PyNone /\ ~lst.reverse /\ lst.count0 = 0

\* C37 (as stated): continuous forward iteration with limit L from count 0
\* yields at most L items, and the sum of the requested page sizes never
\* exceeds L.
C37_RequestedSizesWithinLimit ==
    ForwardIteration => (lst.nYielded <= lst.limit.num /\ lst.sumReq <= lst.limit.num)

\* C37 (amended): continuous forward iteration with limit L from count 0
\* yields at most L items and then ends without a further request; every
\* requested page size is at most L minus the number of items received so
\* far, so the sum of the received page sizes never exceeds L.
C37_YieldsWithinLimit ==
    /\ [](ForwardIteration => (lst.nYielded <= lst.count /\ lst.count <= lst.limit.num))
    /\ [][(ForwardIteration /\ ~lst'.manual)
          => /\ IssuesRequest => (lst'.params.limit <= lst.limit.num - lst'.count)
             /\ (Calls("anext") /\ lst.nYielded = lst.limit.num)
                   => (lst'.ret = "stop" /\ ~IssuesRequest /\ lst'.nYielded = lst.nYielded)]_vars

C37_Witness ==
    /\ ForwardIteration /\ lst.op = "anext" /\ lst.ret = "stop" /\ lst.pc = "idle"
    /\ lst.limit.num = 2 /\ lst.nYielded = 2 /\ lst.nFetch = 1

\* C39: the flag is set before the initializing fetch, so a listing whose
\* initializing fetch failed is marked initialized: a later initialize()
\* issues no fetch and changes nothing, and next() and prev() pass the
\* precondition check.
C39_FailedInitializeStaysInitialized ==
    /\ [](((lst.pc = "fetching" /\ lst.dir = 0) \/ lst.initFailed) => lst.initialized)
    /\ [][lst.initFailed
          => /\ Calls("await") => (~IssuesRequest /\ lst'.pc = "idle" /\ lst'.err = "none" /\ ListingUntouched)
             /\ (Calls("next") \/ Calls("prev")) => lst'.err # "RedditException"]_vars

C39_Witness ==
    /\ lst.initFailed /\ lst.initialized /\ lst.nInitFetch = 1 /\ lst.buf = <<>>
    /\ lst.op = "next" /\ lst.ops = 3 /\ lst.pc = "fetching" /\ lst.nFetch = 2

\* C36: a depth-first or breadth-first walk over a finite tree ends: once
\* the iteration is over, it has ended with the stack/queue empty and the
\* current sequence exhausted.
C36_WalkEndsExhausted ==
    (BuiltTree /\ ct.status \notin {"none", "active"})
       => /\ ct.status = "done"
          /\ ct.queue = <<>>
          /\ ct.cur.i >= Len(ct.lists[ct.cur.tree])

\* C38: when a walk comes to a stub whose depth is not below maxDepth, the
\* stub is skipped: the call does not fail, no request is issued for it, it
\* is not yielded and it stays in its sequence.
C38_DeepStubSkipped ==
    [][(/\ WalkSteps /\ BuiltTree /\ ct.maxDepth # Inf
        /\ NextRead(ct) # 0 /\ IsStub(ct.data.kind[NextRead(ct)])
        /\ DepthOf(ct.data, NextRead(ct)) >= ct.maxDepth)
       => /\ ct'.status # "error"
          /\ ct'.lists = ct.lists /\ ct'.nReq = ct.nReq
          /\ \A j \in 1..Len(ct'.yielded) : ct'.yielded[j] # NextRead(ct)]_vars

\* C40: a second depth-first walk over a tree that has been walked
\* completely with unbounded maxDepth issues no expansion request, does not
\* fail, and yields the same comments in the same order as the first walk.
C40_SecondWalkSame ==
    (BuiltTree /\ ct.walks >= 2 /\ ct.firstDone)
       => /\ ct.nReq = 0
          /\ ct.status # "error"
          /\ IsPrefix(ct.yielded, ct.first)
          /\ ct.status = "done" => ct.yielded = ct.first

C40_Witness ==
    /\ BuiltTree /\ ct.walks = 2 /\ ct.firstDone /\ ct.status = "done"
    /\ ct.data.parent = <<0, 1, 0, 3>>
    /\ ct.first = <<1, 2, 3, 4>> /\ ct.yielded = <<1, 2, 3, 4>>

====
